---- MODULE Spec2Model ----
(***************************************************************************)
(* The Tetris engine of src/src: Shape (shape.py), GameBoard               *)
(* (gameboard.py) and Controller (controller.py).                          *)
(*                                                                         *)
(* Python objects are records, lists are functions over 0..n-1 so that     *)
(* the indices are the ones the code uses.  A method that can raise is an  *)
(* operator returning the object as the raise leaves it together with the  *)
(* exception ("exc"); a caller that does not catch it stops where the      *)
(* call stands and hands the exception on, keeping what it had already     *)
(* assigned.                                                               *)
(***************************************************************************)
EXTENDS Integers, Sequences, FiniteSets, TLC

(***************************************************************************)
(* Bounds of the model.                                                    *)
(***************************************************************************)
\* generate_new_shape draws from the first NumShapeKinds catalog entries
NumShapeKinds == 2
\* the constructor is called with initial_level in 1..MaxInitialLevel
MaxInitialLevel == 1
\* the board has NumRows rows and NumCols columns (the code's 20 and 10, scaled down)
NumRows == 4
NumCols == 4

(***************************************************************************)
(* Values.                                                                 *)
(***************************************************************************)
\* Python's None (a record, so that it compares unequal to every Shape)
None == [none |-> TRUE]

\* a list of lists, indexed from 0 as in Python
Matrix(rows) ==
    [i \in 0..(Len(rows) - 1) |-> [j \in 0..(Len(rows[i + 1]) - 1) |-> rows[i + 1][j + 1]]]

\* len(list)
len(list) == Cardinality(DOMAIN list)

\* the shape catalog
SHAPES ==
    [ I |-> Matrix(<< <<0, 0, 0, 0>>,
                      <<1, 1, 1, 1>>,
                      <<0, 0, 0, 0>>,
                      <<0, 0, 0, 0>> >>),
      O |-> Matrix(<< <<2, 2>>,
                      <<2, 2>> >>),
      T |-> Matrix(<< <<0, 3, 0>>,
                      <<3, 3, 3>>,
                      <<0, 0, 0>> >>),
      J |-> Matrix(<< <<4, 0, 0>>,
                      <<4, 4, 4>>,
                      <<0, 0, 0>> >>),
      L |-> Matrix(<< <<0, 0, 5>>,
                      <<5, 5, 5>>,
                      <<0, 0, 0>> >>),
      S |-> Matrix(<< <<0, 6, 6>>,
                      <<6, 6, 0>>,
                      <<0, 0, 0>> >>),
      Z |-> Matrix(<< <<7, 7, 0>>,
                      <<0, 7, 7>>,
                      <<0, 0, 0>> >>) ]

\* the catalog's keys in the order the dict holds them
ShapeNames == <<"I", "O", "T", "J", "L", "S", "Z">>

\* the matrices random.choice(list(SHAPES.values())) can return, within the bound
Choices == {SHAPES[ShapeNames[k]] : k \in 1..NumShapeKinds}

(***************************************************************************)
(* Shape (shape.py)                                                        *)
(***************************************************************************)
\* the occupied cells of a matrix, as <<row_idx, col_idx>>
Occupied(matrix) ==
    {rc \in UNION {{<<i, j>> : j \in DOMAIN matrix[i]} : i \in DOMAIN matrix} :
        matrix[rc[1]][rc[2]] # 0}

\* the first non-zero value in row-major order, None when there is none
FirstNonZero(matrix) ==
    LET occ == Occupied(matrix)
    IN  IF occ = {} THEN None
        ELSE LET first == CHOOSE a \in occ :
                            \A b \in occ : a[1] < b[1] \/ (a[1] = b[1] /\ a[2] <= b[2])
             IN  matrix[first[1]][first[2]]

\* Shape.__init__: the attributes a Shape object has
Shape(matrix) ==
    [ matrix         |-> matrix,
      rotation_state |-> 0,
      row_position   |-> 0,
      col_position   |-> 0,
      key            |-> FirstNonZero(matrix) ]

\* hasattr(obj, name): the attribute lookup obj.name succeeds
hasattr(obj, name) == name \in DOMAIN obj

\* Shape.rotate with the row reversal stopping one row short
\* (range(len(self.matrix) - 1)): the last row is left as transposed
Shape_rotate_last_row_kept(shape) ==
    LET m == shape.matrix
        n == len(m)
        transposed == [i \in 0..(n - 1) |-> [j \in 0..(n - 1) |-> m[j][i]]]
        reversed == [i \in 0..(n - 1) |-> [j \in 0..(n - 1) |->
                        IF i < n - 1 THEN transposed[i][(n - 1) - j] ELSE transposed[i][j]]]
    IN  [shape EXCEPT !.matrix = reversed,
                      !.rotation_state = (shape.rotation_state + 1) % 4]

\* Shape.rotate with the steps swapped, each row reversed before the
\* transposition: a counter-clockwise turn
Shape_rotate_reverse_first(shape) ==
    LET m == shape.matrix
        n == len(m)
        reversed == [i \in 0..(n - 1) |-> [j \in 0..(n - 1) |-> m[i][(n - 1) - j]]]
        transposed == [i \in 0..(n - 1) |-> [j \in 0..(n - 1) |-> reversed[j][i]]]
    IN  [shape EXCEPT !.matrix = transposed,
                      !.rotation_state = (shape.rotation_state + 1) % 4]

\* the exception Shape.rotate ends in: with more rows than columns the
\* transposition reads matrix[0][j] for a j past the end of row 0
Shape_rotate_exc(shape) ==
    IF len(shape.matrix) > 0 /\ len(shape.matrix) > len(shape.matrix[0])
    THEN "IndexError" ELSE "none"

\* Shape.rotate: transpose the matrix, reverse each row, count the turn.
\* The transposition swaps matrix[i][j] and matrix[j][i] for i <= j below
\* len(matrix): the whole of a square matrix, the leftmost square block of
\* a wider one; on a taller one the swaps of row 0 within its width are
\* done when IndexError ends the call, before any reversal.
Shape_rotate(shape) ==
    LET m == shape.matrix
        n == len(m)
        width == IF n = 0 THEN 0 ELSE len(m[0])
        partial == [i \in 0..(n - 1) |-> [j \in 0..(width - 1) |->
                       IF i = 0 THEN m[j][0]
                       ELSE IF j = 0 /\ i < width THEN m[0][i]
                       ELSE m[i][j]]]
        transposed == [i \in 0..(n - 1) |-> [j \in 0..(width - 1) |->
                          IF j < n THEN m[j][i] ELSE m[i][j]]]
        reversed == [i \in 0..(n - 1) |-> [j \in 0..(width - 1) |->
                        transposed[i][(width - 1) - j]]]
    IN  IF n > width
        THEN [shape EXCEPT !.matrix = partial]
        ELSE [shape EXCEPT !.matrix = reversed,
                           !.rotation_state = (shape.rotation_state + 1) % 4]

(***************************************************************************)
(* GameBoard (gameboard.py)                                                *)
(***************************************************************************)
\* GameBoard.__init__: an empty grid
GameBoard(rows, cols) ==
    [ num_rows |-> rows,
      num_cols |-> cols,
      grid     |-> [r \in 0..(rows - 1) |-> [c \in 0..(cols - 1) |-> 0]] ]

\* the board coordinates <<row, col>> of the shape's occupied cells
BoardCells(shape) ==
    {<<shape.row_position + rc[1], shape.col_position + rc[2]>> : rc \in Occupied(shape.matrix)}

\* 0 <= row < num_rows and 0 <= col < num_cols
InBounds(board, cell) ==
    /\ 0 <= cell[1] /\ cell[1] < board.num_rows
    /\ 0 <= cell[2] /\ cell[2] < board.num_cols

\* can_place without the collision test: only the bounds are looked at
can_place_ignoring_grid(board, shape) ==
    \A cell \in BoardCells(shape) : InBounds(board, cell)

\* GameBoard.can_place: every occupied cell is in bounds and on an empty board cell
can_place(board, shape) ==
    \A cell \in BoardCells(shape) :
        /\ InBounds(board, cell)
        /\ board.grid[cell[1]][cell[2]] = 0

\* the grid with `value` written to the given in-bounds cells
WriteCells(board, cells, value) ==
    [board EXCEPT !.grid =
        [r \in DOMAIN board.grid |->
            [c \in DOMAIN board.grid[r] |->
                IF <<r, c>> \in cells THEN value ELSE board.grid[r][c]]]]

\* GameBoard.place_shape: writes shape.color_key to the shape's in-bounds
\* cells.  The value is looked up at the first such cell: a shape object
\* without that attribute raises AttributeError there, before any write.
place_shape(board, shape) ==
    LET cells == {cell \in BoardCells(shape) : InBounds(board, cell)}
    IN  IF cells = {} THEN [board |-> board, exc |-> "none"]
        ELSE IF hasattr(shape, "color_key")
             THEN [board |-> WriteCells(board, cells, shape["color_key"]), exc |-> "none"]
             ELSE [board |-> board, exc |-> "AttributeError"]

\* remove_shape without the `!= 0` test: the whole matrix is zeroed on the board
remove_shape_whole_matrix(board, shape) ==
    WriteCells(board,
               {cell \in {<<shape.row_position + i, shape.col_position + j>> :
                             i \in DOMAIN shape.matrix, j \in DOMAIN shape.matrix[0]} :
                   InBounds(board, cell)},
               0)

\* GameBoard.remove_shape: writes 0 to the shape's in-bounds cells
remove_shape(board, shape) ==
    WriteCells(board, {cell \in BoardCells(shape) : InBounds(board, cell)}, 0)

\* all(self.grid[row_idx][col] != 0 for col in range(self.num_cols))
RowFull(board, row_idx) ==
    \A col \in 0..(board.num_cols - 1) : board.grid[row_idx][col] # 0

\* the full row emptied where it stands (self.grid[row_idx] = [0] * self.num_cols):
\* nothing above it moves down
DeleteRow_in_place(board, row_idx) ==
    [board EXCEPT !.grid =
        [r \in DOMAIN board.grid |->
            IF r = row_idx THEN [c \in 0..(board.num_cols - 1) |-> 0]
            ELSE board.grid[r]]]

\* del self.grid[row_idx]; self.grid.insert(0, [0] * self.num_cols)
DeleteRow(board, row_idx) ==
    [board EXCEPT !.grid =
        [r \in DOMAIN board.grid |->
            IF r = 0 THEN [c \in 0..(board.num_cols - 1) |-> 0]
            ELSE IF r <= row_idx THEN board.grid[r - 1]
            ELSE board.grid[r]]]

\* the while loop of clear_rows, from row_idx upwards
RECURSIVE clear_rows_from(_, _, _)
clear_rows_from(board, row_idx, cleared) ==
    IF row_idx < 0 THEN [board |-> board, cleared |-> cleared]
    ELSE IF RowFull(board, row_idx)
         THEN clear_rows_from(DeleteRow(board, row_idx), row_idx, cleared + 1)
         ELSE clear_rows_from(board, row_idx - 1, cleared)

\* GameBoard.clear_rows: the board after the sweep and the number of rows cleared
clear_rows(board) == clear_rows_from(board, board.num_rows - 1, 0)

(***************************************************************************)
(* Controller (controller.py)                                              *)
(*                                                                         *)
(* A method is an operator from the controller object `self` (a record of  *)
(* its attributes) to [self, ret, fits]: the object when the call ends,    *)
(* what the call returned ("True", "False", "None") or the exception it    *)
(* raised ("AttributeError"), and whether the can_place test the method    *)
(* made for the active shape passed.  tick and __init__ also give `calls`, *)
(* the methods they called, in the order they called them.                 *)
(***************************************************************************)
\* update_level with the starting level hard-coded to 1 in place of
\* self.initial_level
update_level_from_one(self) ==
    LET required_lines_cleared_per_level == 10
    IN  [self EXCEPT !.level =
            (self.total_rows_cleared \div required_lines_cleared_per_level) + 1]

\* Controller.update_level
update_level(self) ==
    LET required_lines_cleared_per_level == 10
    IN  [self EXCEPT !.level =
            (self.total_rows_cleared \div required_lines_cleared_per_level) + self.initial_level]

\* generate_new_shape building the shape from the matrix without its last
\* row (matrix[:-1])
generate_new_shape_short(choice) == Shape([i \in 0..(len(choice) - 2) |-> choice[i]])

\* Controller.generate_new_shape, `choice` being what random.choice returned
generate_new_shape(choice) == Shape(choice)

\* points_table.get(num_rows_cleared, 0)
points_table(num_rows_cleared) ==
    CASE num_rows_cleared = 1 -> 40
      [] num_rows_cleared = 2 -> 100
      [] num_rows_cleared = 3 -> 300
      [] num_rows_cleared = 4 -> 1200
      [] OTHER -> 0

\* update_points multiplying by the level the new total gives, not by the
\* level in effect
update_points_new_level(self, num_rows_cleared) ==
    [self EXCEPT !.total_rows_cleared = self.total_rows_cleared + num_rows_cleared,
                 !.points = self.points +
                     (points_table(num_rows_cleared) *
                         (((self.total_rows_cleared + num_rows_cleared) \div 10)
                             + self.initial_level))]

\* Controller.update_points
update_points(self, num_rows_cleared) ==
    [self EXCEPT !.total_rows_cleared = self.total_rows_cleared + num_rows_cleared,
                 !.points = self.points + (points_table(num_rows_cleared) * self.level)]

\* spawn_new_shape taking the piece with pop() instead of popleft(): the
\* tail of the queue is activated, not its head
spawn_new_shape_pop(self, choice) ==
    LET n == Len(self.shape_queue)
        popped == [self EXCEPT !.active_shape = self.shape_queue[n],
                               !.shape_queue = Append(SubSeq(self.shape_queue, 1, n - 1),
                                                      generate_new_shape(choice))]
    IN  IF can_place(popped.game_board, popped.active_shape)
        THEN LET placed == place_shape(popped.game_board, popped.active_shape)
             IN  [ self |-> [popped EXCEPT !.game_board = placed.board],
                   ret  |-> IF placed.exc # "none" THEN placed.exc ELSE "True",
                   fits |-> TRUE ]
        ELSE [self |-> popped, ret |-> "False", fits |-> FALSE]

\* Controller.spawn_new_shape, `choice` being what random.choice returned
spawn_new_shape(self, choice) ==
    LET popped == [self EXCEPT !.active_shape = Head(self.shape_queue),
                               !.shape_queue = Append(Tail(self.shape_queue),
                                                      generate_new_shape(choice))]
    IN  IF can_place(popped.game_board, popped.active_shape)
        THEN LET placed == place_shape(popped.game_board, popped.active_shape)
             IN  [ self |-> [popped EXCEPT !.game_board = placed.board],
                   ret  |-> IF placed.exc # "none" THEN placed.exc ELSE "True",
                   fits |-> TRUE ]
        ELSE [self |-> popped, ret |-> "False", fits |-> FALSE]

\* Controller.rotate
rotate(self) ==
    IF self.active_shape = None
    THEN [self |-> self, ret |-> "False", fits |-> FALSE]
    ELSE LET removed == remove_shape(self.game_board, self.active_shape)
             original_matrix == self.active_shape.matrix
             rotated == Shape_rotate(self.active_shape)
         IN  IF can_place(removed, rotated)
             THEN LET placed == place_shape(removed, rotated)
                  IN  [ self |-> [self EXCEPT !.game_board = placed.board,
                                              !.active_shape = rotated],
                        ret  |-> IF placed.exc # "none" THEN placed.exc ELSE "True",
                        fits |-> TRUE ]
             ELSE LET restored == [rotated EXCEPT !.matrix = original_matrix]
                      placed == place_shape(removed, restored)
                  IN  [ self |-> [self EXCEPT !.game_board = placed.board,
                                              !.active_shape = restored],
                        ret  |-> IF placed.exc # "none" THEN placed.exc ELSE "False",
                        fits |-> FALSE ]

\* the row and column change of a direction; no entry for any other string
changein(direction) ==
    CASE direction = "left"  -> <<0, -1>>
      [] direction = "right" -> <<0, 1>>
      [] direction = "down"  -> <<1, 0>>

\* move that, finding the piece blocked, gives up the piece and takes the
\* head of the queue as the active shape
move_taking_next_piece(self, direction) ==
    IF self.active_shape = None
    THEN [self |-> self, ret |-> "False", fits |-> FALSE]
    ELSE IF direction \notin {"left", "right", "down"}
    THEN [self |-> self, ret |-> "False", fits |-> FALSE]
    ELSE LET removed == remove_shape(self.game_board, self.active_shape)
             shifted == [self.active_shape EXCEPT
                            !.row_position = @ + changein(direction)[1],
                            !.col_position = @ + changein(direction)[2]]
         IN  IF can_place(removed, shifted)
             THEN LET placed == place_shape(removed, shifted)
                  IN  [ self |-> [self EXCEPT !.game_board = placed.board,
                                              !.active_shape = shifted],
                        ret  |-> IF placed.exc # "none" THEN placed.exc ELSE "True",
                        fits |-> TRUE ]
             ELSE [ self |-> [self EXCEPT
                                 !.game_board = removed,
                                 !.active_shape = Head(self.shape_queue),
                                 !.shape_queue = Append(Tail(self.shape_queue),
                                                        Head(self.shape_queue))],
                    ret  |-> "False",
                    fits |-> FALSE ]

\* move that takes a direction it does not know for no shift at all: the
\* piece is removed and placed again where it was
move_unknown_direction_as_no_shift(self, direction) ==
    IF self.active_shape = None
    THEN [self |-> self, ret |-> "False", fits |-> FALSE]
    ELSE LET removed == remove_shape(self.game_board, self.active_shape)
             delta == IF direction \in {"left", "right", "down"}
                      THEN changein(direction) ELSE <<0, 0>>
             shifted == [self.active_shape EXCEPT
                            !.row_position = @ + delta[1],
                            !.col_position = @ + delta[2]]
         IN  IF can_place(removed, shifted)
             THEN LET placed == place_shape(removed, shifted)
                  IN  [ self |-> [self EXCEPT !.game_board = placed.board,
                                              !.active_shape = shifted],
                        ret  |-> IF placed.exc # "none" THEN placed.exc ELSE "True",
                        fits |-> TRUE ]
             ELSE LET placed == place_shape(removed, self.active_shape)
                  IN  [ self |-> [self EXCEPT !.game_board = placed.board],
                        ret  |-> IF placed.exc # "none" THEN placed.exc ELSE "False",
                        fits |-> FALSE ]

\* Controller.move
move(self, direction) ==
    IF self.active_shape = None
    THEN [self |-> self, ret |-> "False", fits |-> FALSE]
    ELSE IF direction \notin {"left", "right", "down"}
    THEN [self |-> self, ret |-> "False", fits |-> FALSE]
    ELSE LET removed == remove_shape(self.game_board, self.active_shape)
             shifted == [self.active_shape EXCEPT
                            !.row_position = @ + changein(direction)[1],
                            !.col_position = @ + changein(direction)[2]]
         IN  IF can_place(removed, shifted)
             THEN LET placed == place_shape(removed, shifted)
                  IN  [ self |-> [self EXCEPT !.game_board = placed.board,
                                              !.active_shape = shifted],
                        ret  |-> IF placed.exc # "none" THEN placed.exc ELSE "True",
                        fits |-> TRUE ]
             ELSE LET reverted == [shifted EXCEPT
                                      !.row_position = @ - changein(direction)[1],
                                      !.col_position = @ - changein(direction)[2]]
                      placed == place_shape(removed, reverted)
                  IN  [ self |-> [self EXCEPT !.game_board = placed.board,
                                              !.active_shape = reverted],
                        ret  |-> IF placed.exc # "none" THEN placed.exc ELSE "False",
                        fits |-> FALSE ]

\* Controller.tick, `choice` being what random.choice returns if a shape is generated
tick(self, choice) ==
    LET moved == move(self, "down")
    IN  IF moved.ret \notin {"True", "False"}
        THEN [self |-> moved.self, ret |-> moved.ret, fits |-> moved.fits,
              calls |-> <<"move">>]
        ELSE IF moved.ret = "True"
        THEN [self |-> moved.self, ret |-> "True", fits |-> moved.fits,
              calls |-> <<"move">>]
        ELSE LET swept == clear_rows(moved.self.game_board)
                 scored == update_points([moved.self EXCEPT !.game_board = swept.board],
                                         swept.cleared)
                 levelled == update_level(scored)
                 spawned == spawn_new_shape(levelled, choice)
             IN  [self |-> spawned.self, ret |-> spawned.ret, fits |-> moved.fits,
                  calls |-> <<"move", "clear_rows", "update_points", "update_level",
                              "spawn_new_shape">>]

\* Controller.__init__ with the four matrices random.choice returns
Controller(initial_level, choices) ==
    LET fields == [ game_board         |-> GameBoard(NumRows, NumCols),
                    active_shape       |-> None,
                    points             |-> 0,
                    level              |-> initial_level,
                    initial_level      |-> initial_level,
                    total_rows_cleared |-> 0,
                    shape_queue        |-> << generate_new_shape(choices[1]),
                                              generate_new_shape(choices[2]),
                                              generate_new_shape(choices[3]) >> ]
        spawned == spawn_new_shape(fields, choices[4])
    IN  [ self |-> spawned.self,
          ret   |-> IF spawned.ret \notin {"True", "False"} THEN spawned.ret ELSE "None",
          fits  |-> spawned.fits,
          calls |-> <<"spawn_new_shape">> ]

(***************************************************************************)
(* The state: one Controller object and the last call the host made on it. *)
(***************************************************************************)
VARIABLES
    game_board,          \* Controller.game_board: [num_rows, num_cols, grid]
    active_shape,        \* Controller.active_shape
    shape_queue,         \* Controller.shape_queue, head first
    points,              \* Controller.points
    level,               \* Controller.level
    initial_level,       \* Controller.initial_level
    total_rows_cleared,  \* Controller.total_rows_cleared
    call,                \* the last call: [op, arg, ret, fits, calls]
    ui,                  \* the GameUI object and its run() loop, None without one
    heap                 \* which list objects the matrices are, None where values suffice

vars == <<game_board, active_shape, shape_queue, points, level, initial_level,
          total_rows_cleared, call, ui, heap>>

\* the controller object held in the variables
Self ==
    [ game_board         |-> game_board,
      active_shape       |-> active_shape,
      points             |-> points,
      level              |-> level,
      initial_level      |-> initial_level,
      total_rows_cleared |-> total_rows_cleared,
      shape_queue        |-> shape_queue ]

\* the record of a call `op(arg)` that ended as `result`
Call(op, arg, result) ==
    [ op    |-> op,
      arg   |-> arg,
      ret   |-> result.ret,
      fits  |-> result.fits,
      calls |-> IF "calls" \in DOMAIN result THEN result.calls ELSE << >> ]

\* the object's attributes after a call that ended as `result`
Becomes(result) ==
    /\ game_board' = result.self.game_board
    /\ active_shape' = result.self.active_shape
    /\ shape_queue' = result.self.shape_queue
    /\ points' = result.self.points
    /\ level' = result.self.level
    /\ initial_level' = result.self.initial_level
    /\ total_rows_cleared' = result.self.total_rows_cleared

\* the directions the host passes to move; "up" is not one move knows
Directions == {"left", "right", "down", "up"}

\* The object as Controller(initial_level) leaves it.  The constructor's
\* spawn_new_shape() ends in the AttributeError of place_shape, so __init__
\* raises; the attributes are the ones it had assigned by then, and the calls
\* below are made on that object (Controller.__new__, then __init__).
Init ==
    \E lvl \in 1..MaxInitialLevel, choices \in [1..4 -> Choices] :
        LET result == Controller(lvl, choices)
        IN  /\ game_board = result.self.game_board
            /\ active_shape = result.self.active_shape
            /\ shape_queue = result.self.shape_queue
            /\ points = result.self.points
            /\ level = result.self.level
            /\ initial_level = result.self.initial_level
            /\ total_rows_cleared = result.self.total_rows_cleared
            /\ call = Call("__init__", "", result)
            /\ ui = None
            /\ heap = None

\* the host calls controller.move(direction)
Move ==
    \E direction \in Directions :
        /\ Becomes(move(Self, direction))
        /\ call' = Call("move", direction, move(Self, direction))
        /\ UNCHANGED <<ui, heap>>

\* the host calls controller.rotate()
Rotate ==
    /\ Becomes(rotate(Self))
    /\ call' = Call("rotate", "", rotate(Self))
    /\ UNCHANGED <<ui, heap>>

\* the host calls controller.tick()
Tick ==
    \E choice \in Choices :
        /\ Becomes(tick(Self, choice))
        /\ call' = Call("tick", "", tick(Self, choice))
        /\ UNCHANGED <<ui, heap>>

\* a call of controller.spawn_new_shape()
SpawnNewShape ==
    \E choice \in Choices :
        /\ Becomes(spawn_new_shape(Self, choice))
        /\ call' = Call("spawn_new_shape", "", spawn_new_shape(Self, choice))
        /\ UNCHANGED <<ui, heap>>

Next == Move \/ Rotate \/ Tick \/ SpawnNewShape

Spec == Init /\ [][Next]_vars

(***************************************************************************)
(* What the claims speak of, read off a step: the unprimed variables are   *)
(* the object before the call, the primed ones the object after it.        *)
(***************************************************************************)
\* the methods the last call ran
Ran(record) == {record.op} \cup {record.calls[i] : i \in 1..Len(record.calls)}

\* the board of `board` with the shape taken off it
Without(board, shape) == remove_shape(board, shape)

\* the 90-degree clockwise rotation of an n x n matrix: new[i][j] = old[n-1-j][i]
Clockwise(matrix) ==
    LET n == len(matrix)
    IN  [i \in 0..(n - 1) |-> [j \in 0..(n - 1) |-> matrix[(n - 1) - j][i]]]

\* the engine is in GameOver: a spawn found its position obstructed
GameOver == "spawn_new_shape" \in Ran(call) /\ call.ret = "False"

\* No reachable state is a GameOver state, and no tick() ever returns: each
\* tick() ends in the AttributeError of its move("down").
GameOverNeverReached ==
    /\ ~GameOver
    /\ call.op = "tick" => call.ret = "AttributeError" /\ call.calls = <<"move">>

(***************************************************************************)
(* C3: a tick() whose downward move is blocked runs clear_rows(), the      *)
(* score/lines update, the level update and spawn_new_shape(), in this     *)
(* order, and returns False exactly when that spawn is obstructed and True *)
(* otherwise.                                                              *)
(***************************************************************************)
C3_BlockedTickLocks ==
    [][(call'.op = "tick" /\ ~call'.fits) =>
          LET swept == clear_rows(game_board)
          IN  /\ call'.calls = <<"move", "clear_rows", "update_points", "update_level",
                                 "spawn_new_shape">>
              /\ total_rows_cleared' = total_rows_cleared + swept.cleared
              /\ points' = points + (points_table(swept.cleared) * level)
              /\ level' = (total_rows_cleared' \div 10) + initial_level
              /\ active_shape' = Head(shape_queue)
              /\ call'.ret = IF can_place(swept.board, Head(shape_queue))
                             THEN "True" ELSE "False"]_vars

(***************************************************************************)
(* C4: a tick() whose downward move is legal only moves the active piece   *)
(* down by one row and returns True: score, level, total_rows_cleared, the *)
(* queue, the piece's column and matrix are unchanged, no row is cleared   *)
(* and no piece is spawned.                                                *)
(***************************************************************************)
C4_LegalTickOnlyMovesDown ==
    [][(call'.op = "tick" /\ call'.fits) =>
          /\ call'.ret = "True"
          /\ call'.calls = <<"move">>
          /\ active_shape' = [active_shape EXCEPT !.row_position = @ + 1]
          /\ UNCHANGED <<points, level, total_rows_cleared, shape_queue>>]_vars

(***************************************************************************)
(* C5: when move(direction) finds the target position illegal it returns   *)
(* False and the active piece's row, column and matrix and every board     *)
(* cell are what they were before the call; so does move('left') of a      *)
(* piece with an occupied cell in board column 0.                          *)
(***************************************************************************)
C5_BlockedMoveReturnsFalse ==
    [][(call'.op = "move" /\ call'.arg \in {"left", "right", "down"} /\ ~call'.fits) =>
          /\ call'.ret = "False"
          /\ active_shape'.row_position = active_shape.row_position
          /\ active_shape'.col_position = active_shape.col_position
          /\ active_shape'.matrix = active_shape.matrix
          /\ game_board'.grid = game_board.grid]_vars

(***************************************************************************)
(* C6: when the target position is legal, move(direction) returns True,    *)
(* the anchor changes by (0,-1) for left, (0,+1) for right, (+1,0) for     *)
(* down, the matrix is unchanged, and the board differs only in that the   *)
(* piece's cells are empty at the old position and hold its color key at   *)
(* the new one.                                                            *)
(***************************************************************************)
C6_LegalMoveShiftsPiece ==
    [][(call'.op = "move" /\ call'.fits) =>
          LET delta == CASE call'.arg = "left" -> <<0, -1>>
                         [] call'.arg = "right" -> <<0, 1>>
                         [] call'.arg = "down" -> <<1, 0>>
          IN  /\ call'.ret = "True"
              /\ active_shape'.row_position = active_shape.row_position + delta[1]
              /\ active_shape'.col_position = active_shape.col_position + delta[2]
              /\ active_shape'.matrix = active_shape.matrix
              /\ game_board'.grid =
                    WriteCells(Without(game_board, active_shape), BoardCells(active_shape'),
                               active_shape.key).grid]_vars

(***************************************************************************)
(* C7: when the rotated matrix does not fit at the current anchor,         *)
(* rotate() returns False and the active piece's matrix, its anchor and    *)
(* every board cell are what they were before the call.                    *)
(***************************************************************************)
C7_RejectedRotateReturnsFalse ==
    [][(call'.op = "rotate" /\ ~call'.fits) =>
          /\ call'.ret = "False"
          /\ active_shape'.matrix = active_shape.matrix
          /\ active_shape'.row_position = active_shape.row_position
          /\ active_shape'.col_position = active_shape.col_position
          /\ game_board'.grid = game_board.grid]_vars

(***************************************************************************)
(* C8: when the rotated matrix fits, rotate() returns True and the active  *)
(* piece's matrix is the 90-degree clockwise rotation of its previous      *)
(* matrix; rotate never changes the anchor, in any outcome.                *)
(***************************************************************************)
C8_LegalRotateTurnsClockwise ==
    [][call'.op = "rotate" =>
          /\ active_shape'.row_position = active_shape.row_position
          /\ active_shape'.col_position = active_shape.col_position
          /\ call'.fits =>
                /\ call'.ret = "True"
                /\ active_shape'.matrix = Clockwise(active_shape.matrix)]_vars

(***************************************************************************)
(* C9: spawn_new_shape() returns False if and only if an occupied cell of  *)
(* the newly activated piece, at its spawn position, maps onto an occupied *)
(* board cell or outside the board, and True otherwise; when it returns    *)
(* False the board grid is unchanged, and when it returns True the piece's *)
(* cells are written to the board.                                         *)
(***************************************************************************)
C9_SpawnReturnsWhetherPlaced ==
    [][call'.op = "spawn_new_shape" =>
          LET piece == Head(shape_queue)
              obstructed == \E cell \in BoardCells(piece) :
                                \/ ~InBounds(game_board, cell)
                                \/ game_board.grid[cell[1]][cell[2]] # 0
          IN  /\ call'.ret = IF obstructed THEN "False" ELSE "True"
              /\ call'.ret = "False" => game_board'.grid = game_board.grid
              /\ call'.ret = "True" =>
                    \A cell \in BoardCells(piece) :
                        game_board'.grid[cell[1]][cell[2]] = piece.key]_vars

(***************************************************************************)
(* C10: spawn_new_shape() is FIFO over the queue: the activated piece is   *)
(* the one that was at the head of the queue, the remaining queued pieces  *)
(* keep their order and move one place forward, one new piece is appended  *)
(* at the tail, and the queue length is 3 in every state after             *)
(* construction.                                                           *)
(***************************************************************************)
C10_QueueIsFifo ==
    /\ [](Len(shape_queue) = 3)
    /\ [][("spawn_new_shape" \in Ran(call)') =>
             /\ active_shape' = Head(shape_queue)
             /\ Len(shape_queue') = Len(shape_queue)
             /\ \A i \in 1..(Len(shape_queue) - 1) : shape_queue'[i] = shape_queue[i + 1]
             /\ shape_queue'[Len(shape_queue')] \in {generate_new_shape(c) : c \in Choices}]_vars

\* a spawn_new_shape() call has taken the head of a queue of three pieces
\* that were not all alike, and left three pieces queued
C10_Witness ==
    /\ call.op = "spawn_new_shape"
    /\ Len(shape_queue) = 3
    /\ active_shape.matrix # shape_queue[1].matrix
    /\ shape_queue[1].matrix # shape_queue[2].matrix

(***************************************************************************)
(* C11: every piece activated by spawn_new_shape() has its matrix anchored *)
(* at the top row (row 0) and horizontally centered on the board: its      *)
(* anchor column leaves as many free columns to the left of the matrix as  *)
(* to the right, give or take one.                                         *)
(***************************************************************************)
C11_SpawnsTopCentre ==
    "spawn_new_shape" \in Ran(call) =>
        LET free == game_board.num_cols - len(active_shape.matrix)
        IN  /\ active_shape.row_position = 0
            /\ active_shape.col_position \in {free \div 2, free - (free \div 2)}

(***************************************************************************)
(* GameBoard on its own: a board with some locked cells, a shape held at   *)
(* some position, and the three methods called on them in any order.       *)
(***************************************************************************)
\* a board of the harness has at most MaxFilled occupied cells
MaxFilled == 1

\* all <<row, col>> of a NumRows x NumCols grid
AllCells == (0..(NumRows - 1)) \X (0..(NumCols - 1))

\* the boards the methods are called on: GameBoard() with a colour key
\* written to at most MaxFilled cells
BoardInputs ==
    {WriteCells(GameBoard(NumRows, NumCols), cells, 7) :
        cells \in {s \in SUBSET AllCells : Cardinality(s) <= MaxFilled}}

\* the shapes the methods are called with: a catalog shape moved to an
\* anchor on the board or one step off its top or left edge
ShapeInputs ==
    {[Shape(matrix) EXCEPT !.row_position = row, !.col_position = col] :
        matrix \in Choices, row \in (0 - 1)..(NumRows - 1), col \in (0 - 1)..(NumCols - 1)}

\* the record of a GameBoard call: its result and the grid it was made on,
\* and the same of the call made before it (`last`)
BoardCall(op, ret, before, last) ==
    [ op          |-> op,
      ret         |-> ret,
      before      |-> before,
      prev        |-> last.op,
      prev_before |-> last.before ]

InitBoard ==
    /\ game_board \in BoardInputs
    /\ active_shape \in ShapeInputs
    /\ shape_queue = << >>
    /\ points = 0
    /\ level = 1
    /\ initial_level = 1
    /\ total_rows_cleared = 0
    /\ ui = None
    /\ heap = None
    /\ call = BoardCall("GameBoard", "None", game_board.grid,
                        [op |-> "", before |-> game_board.grid])

\* game_board.can_place(active_shape)
CanPlace ==
    /\ call' = BoardCall("can_place",
                         IF can_place(game_board, active_shape) THEN "True" ELSE "False",
                         game_board.grid, call)
    /\ UNCHANGED <<game_board, active_shape, shape_queue, points, level,
                   initial_level, total_rows_cleared, ui, heap>>

\* game_board.place_shape(active_shape)
PlaceShape ==
    /\ game_board' = place_shape(game_board, active_shape).board
    /\ call' = BoardCall("place_shape",
                         IF place_shape(game_board, active_shape).exc = "none"
                         THEN "None" ELSE place_shape(game_board, active_shape).exc,
                         game_board.grid, call)
    /\ UNCHANGED <<active_shape, shape_queue, points, level, initial_level,
                   total_rows_cleared, ui, heap>>

\* game_board.remove_shape(active_shape)
RemoveShape ==
    /\ game_board' = remove_shape(game_board, active_shape)
    /\ call' = BoardCall("remove_shape", "None", game_board.grid, call)
    /\ UNCHANGED <<active_shape, shape_queue, points, level, initial_level,
                   total_rows_cleared, ui, heap>>

NextBoard == CanPlace \/ PlaceShape \/ RemoveShape

SpecBoard == InitBoard /\ [][NextBoard]_vars

\* the matrix cell <<i, j>> of the shape lies outside the grid
MapsOutside(board, shape, i, j) ==
    \/ shape.row_position + i < 0 \/ shape.row_position + i >= board.num_rows
    \/ shape.col_position + j < 0 \/ shape.col_position + j >= board.num_cols

(***************************************************************************)
(* C12: can_place returns False if and only if at least one occupied cell  *)
(* of the piece maps outside [0,numRows) x [0,numCols) or onto a nonzero   *)
(* board cell, and True otherwise.                                         *)
(***************************************************************************)
C12_CanPlaceTruthTable ==
    call.op = "can_place" =>
        LET m == active_shape.matrix
            blocked == \E i \in DOMAIN m : \E j \in DOMAIN m[i] :
                          /\ m[i][j] # 0
                          /\ \/ MapsOutside(game_board, active_shape, i, j)
                             \/ game_board.grid[active_shape.row_position + i]
                                               [active_shape.col_position + j] # 0
        IN  /\ call.ret \in {"True", "False"}
            /\ (call.ret = "False") <=> blocked

\* can_place has answered False for a piece that lies inside the grid, on a
\* locked cell
C12_Witness ==
    /\ call.op = "can_place"
    /\ call.ret = "False"
    /\ \A cell \in BoardCells(active_shape) : InBounds(game_board, cell)

\* remove_shape was called right after place_shape, with the same shape
PlacedThenRemoved == call.op = "remove_shape" /\ call.prev = "place_shape"

\* the cells of the shape that lie inside the grid were all empty on `grid`
FreeUnder(board, shape, grid) ==
    \A cell \in BoardCells(shape) : InBounds(board, cell) => grid[cell[1]][cell[2]] = 0

(***************************************************************************)
(* C13 as stated: for every board, piece and position, place_shape         *)
(* followed by remove_shape of the same piece at the same position leaves  *)
(* the grid equal to the grid before the two calls.                        *)
(***************************************************************************)
C13_PlaceThenRemoveIsIdentity ==
    PlacedThenRemoved => game_board.grid = call.prev_before

(***************************************************************************)
(* C13 amended: for every board, piece and position at which the piece's   *)
(* cells inside the grid are all on empty board cells, place_shape         *)
(* followed by remove_shape of the same piece at the same position leaves  *)
(* the grid equal to the grid before the two calls.                        *)
(***************************************************************************)
C13_PlaceThenRemoveOnFreeCells ==
    (PlacedThenRemoved /\ FreeUnder(game_board, active_shape, call.prev_before)) =>
        game_board.grid = call.prev_before

\* the two calls were made with a piece that has cells inside the grid, all
\* of them on empty cells of a board that is not empty
C13_Witness ==
    /\ PlacedThenRemoved
    /\ FreeUnder(game_board, active_shape, call.prev_before)
    /\ \E cell \in BoardCells(active_shape) : InBounds(game_board, cell)
    /\ call.prev_before # GameBoard(NumRows, NumCols).grid

(***************************************************************************)
(* Shape on its own: a shape built from a square matrix and rotate()       *)
(* called on it again and again.                                           *)
(***************************************************************************)
\* the arbitrary matrices of the harness are n x n with n <= MaxSide
MaxSide == 3
\* rotate() is called at most MaxTurns times on one shape
MaxTurns == 4

\* the matrices of the seven catalog shapes
CatalogMatrices == {SHAPES[ShapeNames[k]] : k \in 1..Len(ShapeNames)}

\* every n x n matrix of empty and occupied cells, 1 <= n <= MaxSide
SquareMatrices ==
    UNION {[0..(n - 1) -> [0..(n - 1) -> {0, 1}]] : n \in 1..MaxSide}

\* the record of the rotate() calls made on the shape: the matrix the
\* shape was built with, the number of calls, what the last one returned
\* and the exception it ended in
ShapeCall(op, ret, exc, start, count) ==
    [op |-> op, ret |-> ret, exc |-> exc, start |-> start, count |-> count]

InitShape ==
    /\ \E matrix \in CatalogMatrices \cup SquareMatrices :
          /\ active_shape = Shape(matrix)
          /\ call = ShapeCall("Shape", None, "none", matrix, 0)
    /\ game_board = GameBoard(NumRows, NumCols)
    /\ shape_queue = << >>
    /\ points = 0
    /\ level = 1
    /\ initial_level = 1
    /\ total_rows_cleared = 0
    /\ ui = None
    /\ heap = None

\* active_shape.rotate()
ShapeRotate ==
    /\ call.count < MaxTurns
    /\ active_shape' = Shape_rotate(active_shape)
    /\ call' = ShapeCall("rotate",
                         IF Shape_rotate_exc(active_shape) = "none"
                         THEN Shape_rotate(active_shape).matrix ELSE None,
                         Shape_rotate_exc(active_shape), call.start, call.count + 1)
    /\ UNCHANGED <<game_board, shape_queue, points, level, initial_level,
                   total_rows_cleared, ui, heap>>

NextShape == ShapeRotate

SpecShape == InitShape /\ [][NextShape]_vars

(***************************************************************************)
(* C14: for each of the 7 catalog shapes, applying Shape.rotate() four     *)
(* times returns the matrix to its original configuration.                 *)
(***************************************************************************)
C14_FourRotationsAreIdentity ==
    (call.start \in CatalogMatrices /\ call.count = 4) =>
        active_shape.matrix = call.start

\* rotate() has been called four times on the T piece, which the first
\* three calls left in three other configurations
C14_Witness ==
    /\ call.start = SHAPES.T
    /\ call.count = 4
    /\ active_shape.matrix = SHAPES.T

(***************************************************************************)
(* C15: Shape.rotate() on an n x n matrix produces the 90-degree clockwise *)
(* rotation (new[i][j] = old[n-1-j][i]), keeps the matrix n x n, keeps the *)
(* number of occupied cells, and leaves the piece's color key unchanged.   *)
(***************************************************************************)
C15_RotateIsClockwiseQuarterTurn ==
    [][call'.op = "rotate" =>
        LET old == active_shape.matrix
            new == active_shape'.matrix
            n == len(old)
        IN  /\ DOMAIN new = 0..(n - 1)
            /\ \A i \in 0..(n - 1) : DOMAIN new[i] = 0..(n - 1)
            /\ \A i, j \in 0..(n - 1) : new[i][j] = old[(n - 1) - j][i]
            /\ call'.ret = new
            /\ Cardinality(Occupied(new)) = Cardinality(Occupied(old))
            /\ active_shape'.key = active_shape.key]_vars

\* rotate() has turned the L piece onto its side: the turn is visible and
\* differs from the counter-clockwise one
C15_Witness ==
    /\ call.op = "rotate"
    /\ call.start = SHAPES.L
    /\ call.count = 1
    /\ active_shape.matrix = Clockwise(SHAPES.L)
    /\ active_shape.matrix # SHAPES.L

(***************************************************************************)
(* clear_rows on its own: a board stacked from empty rows, full rows and   *)
(* rows with a single locked cell, and clear_rows() called on it.          *)
(***************************************************************************)
\* the rows a board of the harness is stacked from
RowInputs ==
    {[c \in 0..(NumCols - 1) |-> 0], [c \in 0..(NumCols - 1) |-> 7]}
    \cup {[c \in 0..(NumCols - 1) |-> IF c = filled THEN 7 ELSE 0] :
            filled \in 0..(NumCols - 1)}

\* the boards clear_rows is called on
StackInputs ==
    {[GameBoard(NumRows, NumCols) EXCEPT !.grid = grid] :
        grid \in [0..(NumRows - 1) -> RowInputs]}

\* the record of a clear_rows call: what it returned and the grid before it
ClearCall(op, ret, before) == [op |-> op, ret |-> ret, before |-> before]

InitClear ==
    /\ game_board \in StackInputs
    /\ active_shape = None
    /\ shape_queue = << >>
    /\ points = 0
    /\ level = 1
    /\ initial_level = 1
    /\ total_rows_cleared = 0
    /\ ui = None
    /\ heap = None
    /\ call = ClearCall("GameBoard", None, game_board.grid)

\* game_board.clear_rows()
ClearRows ==
    /\ game_board' = clear_rows(game_board).board
    /\ call' = ClearCall("clear_rows", clear_rows(game_board).cleared, game_board.grid)
    /\ UNCHANGED <<active_shape, shape_queue, points, level, initial_level,
                   total_rows_cleared, ui, heap>>

NextClear == ClearRows

SpecClear == InitClear /\ [][NextClear]_vars

\* a row with no empty cell
IsFullRow(row) == \A c \in DOMAIN row : row[c] # 0

\* a row with an empty cell
IsOpenRow(row) == ~IsFullRow(row)

\* the rows of a grid from top to bottom, as a sequence
RowsOf(grid) == [r \in 1..len(grid) |-> grid[r - 1]]

(***************************************************************************)
(* C16: clear_rows() on a board with exactly k full rows (anywhere,        *)
(* adjacent or not) returns k, leaves the grid with numRows rows whose top *)
(* k rows are empty, and keeps all non-full rows below them in their       *)
(* original relative order with unchanged contents; with k = 0 it returns  *)
(* 0 and leaves the grid unchanged.                                        *)
(***************************************************************************)
C16_ClearRowsRemovesFullRows ==
    call.op = "clear_rows" =>
        LET k == Cardinality({r \in DOMAIN call.before : IsFullRow(call.before[r])})
            kept == SelectSeq(RowsOf(call.before), IsOpenRow)
        IN  /\ call.ret = k
            /\ DOMAIN game_board.grid = 0..(game_board.num_rows - 1)
            /\ \A r \in 0..(k - 1) :
                  game_board.grid[r] = [c \in 0..(game_board.num_cols - 1) |-> 0]
            /\ Len(kept) = game_board.num_rows - k
            /\ \A i \in 1..Len(kept) : game_board.grid[(k + i) - 1] = kept[i]
            /\ (k = 0) => (game_board.grid = call.before)

\* clear_rows has cleared two full rows that were not adjacent, with a
\* row holding a locked cell between them and another above them
C16_Witness ==
    /\ call.op = "clear_rows"
    /\ call.ret = 2
    /\ \E r \in 1..(NumRows - 3) :
          /\ IsFullRow(call.before[r])
          /\ IsFullRow(call.before[r + 2])
          /\ IsOpenRow(call.before[r + 1]) /\ Occupied(<<call.before[r + 1]>>) # {}
          /\ IsOpenRow(call.before[r - 1]) /\ Occupied(<<call.before[r - 1]>>) # {}

\* the grid has num_rows rows of num_cols cells, each holding 0 or a colour key
GridWellFormed ==
    /\ DOMAIN game_board.grid = 0..(game_board.num_rows - 1)
    /\ \A r \in DOMAIN game_board.grid :
          /\ DOMAIN game_board.grid[r] = 0..(game_board.num_cols - 1)
          /\ \A c \in DOMAIN game_board.grid[r] : game_board.grid[r][c] \in 0..7

BoardWithFullRows(full) ==
    [GameBoard(NumRows, NumCols) EXCEPT !.grid =
        [r \in 0..(NumRows - 1) |->
            [c \in 0..(NumCols - 1) |-> IF r >= NumRows - full THEN 7 ELSE 0]]]

\* the values of initial_level the objects are constructed with: __init__
\* takes any int, here a level above zero and one below
LevelInputs == {MaxInitialLevel, 0 - MaxInitialLevel}

\* the values of total_rows_cleared the objects start from: a fresh game
\* and one a single row short of the next level
TotalInputs == {0, 9}

InitLock ==
    \E full \in 0..NumRows, lvl \in LevelInputs, total \in TotalInputs :
        /\ game_board = BoardWithFullRows(full)
        /\ active_shape = [Shape(SHAPES.I) EXCEPT !.row_position = NumRows]
        /\ shape_queue = << generate_new_shape(SHAPES.I), generate_new_shape(SHAPES.I),
                            generate_new_shape(SHAPES.I) >>
        /\ points = 0
        /\ initial_level = lvl
        /\ total_rows_cleared = total
        /\ level = (total \div 10) + lvl
        /\ call = [op |-> "Controller", arg |-> "", ret |-> "None", fits |-> FALSE,
                   calls |-> << >>]
        /\ ui = None
        /\ heap = None

NextLock == Tick \/ Move \/ Rotate

SpecLock == InitLock /\ [][NextLock]_vars

\* the number of full rows of the board
FullRows == Cardinality({r \in DOMAIN game_board.grid : IsFullRow(game_board.grid[r])})

\* the call made in this step was a tick() that took its lock branch
LockEvent == call'.op = "tick" /\ "update_points" \in Ran(call')

(***************************************************************************)
(* C17: on every lock event that clears n rows, points increases by        *)
(* base(n) x L where base = {1:40, 2:100, 3:300, 4:1200} and 0 for any     *)
(* other n, and L is the level in effect when the lock happens (before     *)
(* this lock's level recomputation); total_rows_cleared increases by       *)
(* exactly n.                                                              *)
(***************************************************************************)
C17_LockScoresByLevelInEffect ==
    [][LockEvent =>
        LET n == FullRows
            base == IF n = 1 THEN 40 ELSE IF n = 2 THEN 100 ELSE IF n = 3 THEN 300
                    ELSE IF n = 4 THEN 1200 ELSE 0
        IN  /\ FullRows' = 0
            /\ points' = points + (base * level)
            /\ total_rows_cleared' = total_rows_cleared + n]_vars

\* a lock has cleared two rows and taken the game to the next level: the
\* 100 points were counted once, at the level before
C17_Witness ==
    /\ call.op = "tick"
    /\ "update_points" \in Ran(call)
    /\ total_rows_cleared = 11
    /\ initial_level = 1
    /\ level = 2
    /\ points = 100

\* level is the one update_level computes from the rows cleared so far
LevelMatchesRows == level = (total_rows_cleared \div 10) + initial_level

(***************************************************************************)
(* C18: in every state observable between engine calls (from construction  *)
(* on), level == total_rows_cleared // 10 + initial_level; a lock that     *)
(* moves total_rows_cleared across a multiple of 10 changes level within   *)
(* the same tick() call.                                                   *)
(***************************************************************************)
C18_LevelFollowsRowsCleared ==
    /\ []LevelMatchesRows
    /\ [][(call'.op = "tick" /\
           (total_rows_cleared' \div 10) # (total_rows_cleared \div 10)) =>
              level' = level + ((total_rows_cleared' \div 10) - (total_rows_cleared \div 10))]_vars

\* a tick has locked with a row to clear, one row short of the next level,
\* in a game begun below level 1: the level went up in that call
C18_Witness ==
    /\ call.op = "tick"
    /\ "update_level" \in Ran(call)
    /\ total_rows_cleared = 10
    /\ initial_level < 1
    /\ level = initial_level + 1

OnBoard(board, shape) ==
    \A cell \in BoardCells(shape) :
        /\ InBounds(board, cell)
        /\ board.grid[cell[1]][cell[2]] = shape.key

(***************************************************************************)
(* C21: constructing the engine with initial_level = L completes without   *)
(* error and yields a Running state: an empty board except for the first   *)
(* active piece, which is placed on it; 3 queued pieces; points = 0;       *)
(* total_rows_cleared = 0; level = L.                                      *)
(***************************************************************************)
C21_ConstructionYieldsRunning ==
    call.op = "__init__" =>
        /\ call.ret = "None"
        /\ active_shape # None
        /\ OnBoard(game_board, active_shape)
        /\ Without(game_board, active_shape) = GameBoard(NumRows, NumCols)
        /\ Len(shape_queue) = 3
        /\ points = 0
        /\ total_rows_cleared = 0
        /\ level = initial_level

(***************************************************************************)
(* C22: in every Running state observable between engine calls, the active *)
(* piece is on the board exactly at its book-kept position: each occupied  *)
(* cell of its matrix maps to an in-bounds board cell, and that board cell *)
(* holds the piece's color key.                                            *)
(***************************************************************************)
C22_ActivePieceIsOnBoard ==
    ~GameOver => (active_shape # None /\ OnBoard(game_board, active_shape))

(***************************************************************************)
(* C30: after a rejected Controller.rotate(), the active piece's           *)
(* rotation_state has the same value as before the call: it stays          *)
(* consistent with the restored matrix.                                    *)
(***************************************************************************)
C30_RejectedRotateKeepsRotationState ==
    [][(call'.op = "rotate" /\ ~call'.fits) =>
          /\ active_shape'.matrix = active_shape.matrix
          /\ active_shape'.rotation_state = active_shape.rotation_state]_vars

\* the matrix is n x n for one of the given sizes
SquareOfSize(matrix, sizes) ==
    /\ len(matrix) \in sizes
    /\ \A i \in DOMAIN matrix : DOMAIN matrix[i] = 0..(len(matrix) - 1)

\* the pieces the engine has generated and still holds: the queued ones
\* and the active one
HeldPieces ==
    {shape_queue[i] : i \in 1..Len(shape_queue)}
    \cup (IF active_shape = None THEN {} ELSE {active_shape})

\* the matrix is a catalog matrix turned clockwise 0 to 3 times
CatalogShapeTurned(matrix) ==
    \E m \in CatalogMatrices :
        matrix \in {m, Clockwise(m), Clockwise(Clockwise(m)),
                    Clockwise(Clockwise(Clockwise(m)))}

OblongMatrices ==
    UNION {UNION {[0..(rows - 1) -> [0..(cols - 1) -> {0, 1}]] :
                     cols \in (1..MaxSide) \ {rows}} :
              rows \in 1..MaxSide}

InitOblong ==
    /\ \E matrix \in OblongMatrices :
          /\ active_shape = Shape(matrix)
          /\ call = ShapeCall("Shape", None, "none", matrix, 0)
    /\ game_board = GameBoard(NumRows, NumCols)
    /\ shape_queue = << >>
    /\ points = 0
    /\ level = 1
    /\ initial_level = 1
    /\ total_rows_cleared = 0
    /\ ui = None
    /\ heap = None

SpecOblong == InitOblong /\ [][NextShape]_vars

(***************************************************************************)
(* C25: a piece whose matrix is not square is rejected with                *)
(* InvalidShapeError (at construction or at rotate) and never reaches the  *)
(* board; no partial rotation of a non-square matrix is left behind.       *)
(***************************************************************************)
C25_OblongMatrixIsRejected ==
    (call.op = "rotate" /\ call.start \in OblongMatrices) =>
        /\ call.exc = "InvalidShapeError"
        /\ active_shape.matrix = call.start

(***************************************************************************)
(* GameUI (game_ui.py): the tick interval, the rendering and the loop of   *)
(* run().  pygame's window, timer and event queue are outside the model:   *)
(* the events of a batch and the keys held down are inputs of the steps.   *)
(***************************************************************************)
\* the game is started at a level in 1..MaxLevel
MaxLevel == 7

\* the colour keys COLORS_MAPPING has an entry for
COLORS_MAPPING ==
    [key \in 1..7 |-> <<"BLUE", "YELLOW", "PURPLE", "PINK", "ORANGE", "RED", "GREEN">>[key]]

\* the attributes a Controller object has: the ones __init__ assigns and
\* the methods of the class
ControllerAttributes ==
    DOMAIN Self \cup {"update_level", "generate_new_shape", "spawn_new_shape", "rotate",
                      "move", "update_points", "tick"}

RECURSIVE Gcd(_, _)
\* the greatest common divisor of two positive integers
Gcd(a, b) == IF b = 0 THEN a ELSE Gcd(b, a % b)

RECURSIVE SpeedAt(_, _)
\* initial_level_speed * (0.9 ** (level - 1)) for level >= 1, as the exact
\* fraction <<numerator, denominator>> in lowest terms
SpeedAt(initial_level_speed, lvl) ==
    IF lvl <= 1 THEN <<initial_level_speed, 1>>
    ELSE LET before == SpeedAt(initial_level_speed, lvl - 1)
             d == Gcd(before[1] * 9, before[2] * 10)
         IN  <<(before[1] * 9) \div d, (before[2] * 10) \div d>>

\* max(a, b)
max(a, b) == IF a >= b THEN a ELSE b

\* update_tick_interval reading the level the loop last recorded, not the
\* controller's
update_tick_interval_recorded_level(gui, lvl) ==
    LET speed == SpeedAt(gui.initial_level_speed, gui.previous_level)
    IN  [gui EXCEPT !.tick_interval = max(50, speed[1] \div speed[2])]

\* GameUI.update_tick_interval: max(50, int(speed)), int() dropping the
\* fraction
update_tick_interval(gui, lvl) ==
    LET speed == SpeedAt(gui.initial_level_speed, lvl)
    IN  [gui EXCEPT !.tick_interval = max(50, speed[1] \div speed[2])]

\* draw_shape stripping the empty rows from the shape's own matrix, not
\* from a copy of it
draw_shape_in_place(shape) ==
    [ shape |-> [shape EXCEPT !.matrix =
                    LET rows == SelectSeq([r \in 1..len(shape.matrix) |-> shape.matrix[r - 1]],
                                          LAMBDA row : \E c \in DOMAIN row : row[c] # 0)
                    IN  [r \in 0..(Len(rows) - 1) |-> rows[r + 1]]],
      exc   |-> IF \E rc \in Occupied(shape.matrix) :
                      shape.matrix[rc[1]][rc[2]] \notin DOMAIN COLORS_MAPPING
                THEN "KeyError" ELSE "none" ]

\* GameUI.draw_shape: draws the rows of a copy of the matrix that have an
\* occupied cell; the shape as the call leaves it, and the exception
draw_shape(shape) ==
    [ shape |-> shape,
      exc   |-> IF \E rc \in Occupied(shape.matrix) :
                      shape.matrix[rc[1]][rc[2]] \notin DOMAIN COLORS_MAPPING
                THEN "KeyError" ELSE "none" ]

\* GameUI.draw_ui on the controller `self`: the grid, the queued shapes
\* (draw_shape on each), then the hold box, which reads
\* self.controller.hold_shape.  The controller as the call leaves it, and
\* the exception the call ends in.
draw_ui(self) ==
    LET grid == self.game_board.grid
        n == Len(self.shape_queue)
        drawn == [i \in 1..n |-> draw_shape(self.shape_queue[i])]
    IN  IF \E r \in DOMAIN grid : \E c \in DOMAIN grid[r] :
              grid[r][c] # 0 /\ grid[r][c] \notin DOMAIN COLORS_MAPPING
        THEN [self |-> self, exc |-> "KeyError"]
        ELSE IF n = 0
        THEN [self |-> self, exc |-> "ZeroDivisionError"]
        ELSE [ self |-> [self EXCEPT !.shape_queue = [i \in 1..n |-> drawn[i].shape]],
               exc  |-> IF \E i \in 1..n : drawn[i].exc # "none" THEN "KeyError"
                        ELSE IF ~hasattr(self, "hold_shape") THEN "AttributeError"
                        ELSE "none" ]

\* the record of a controller method the host called that the class does
\* not define
NoSuchMethod(op) ==
    [op |-> op, arg |-> "", ret |-> "AttributeError", fits |-> FALSE, calls |-> << >>]

RECURSIVE held_moves(_, _, _)
\* the loop over the held-down keys: controller.move(direction) for each
\* direction in turn, until one raises
held_moves(self, directions, last) ==
    IF directions = << >> THEN [self |-> self, call |-> last, exc |-> "none"]
    ELSE LET moved == move(self, Head(directions))
         IN  IF moved.ret \notin {"True", "False"}
             THEN [self |-> moved.self, call |-> Call("move", Head(directions), moved),
                   exc |-> moved.ret]
             ELSE held_moves(moved.self, Tail(directions),
                             Call("move", Head(directions), moved))

\* GameUI.__init__ around the given controller, and the locals of run() as
\* the loop is entered: `running`, the place in the loop body (`pc`),
\* whether this iteration has handled a quit event (`quit`), the step just
\* taken (`op`)
GameUI(controller, difficulty) ==
    update_tick_interval(
        [ starting_level      |-> difficulty,
          initial_level_speed |-> 500,
          tick_interval       |-> 500,
          previous_level      |-> controller.level,
          running             |-> TRUE,
          pc                  |-> "events",
          quit                |-> FALSE,
          op                  |-> "run" ],
        controller.level)

\* a controller whose next tick() ends the game: an I piece with no cell
\* on the board, a full bottom row, a locked cell that will lie under the
\* next piece once that row is cleared, nine rows cleared so far
EndingController(lvl) ==
    [ game_board         |-> WriteCells(BoardWithFullRows(1), {<<0, 0>>}, 7),
      active_shape       |-> [Shape(SHAPES.I) EXCEPT !.row_position = NumRows],
      points             |-> 0,
      level              |-> lvl,
      initial_level      |-> lvl,
      total_rows_cleared |-> 9,
      shape_queue        |-> << generate_new_shape(SHAPES.I), generate_new_shape(SHAPES.I),
                                generate_new_shape(SHAPES.I) >> ]

\* GameUI.__init__ does not get past Controller(), which raises.  The
\* GameUI objects here are put together from the attributes __init__
\* assigns, around a Controller as its own constructor leaves it or around
\* one about to end its game, and run() is entered on them.
InitHost ==
    \E lvl \in 1..MaxLevel :
        \E controller \in {Controller(lvl, choices).self : choices \in [1..4 -> Choices]}
                          \cup {EndingController(lvl)} :
            /\ game_board = controller.game_board
            /\ active_shape = controller.active_shape
            /\ shape_queue = controller.shape_queue
            /\ points = controller.points
            /\ level = controller.level
            /\ initial_level = controller.initial_level
            /\ total_rows_cleared = controller.total_rows_cleared
            /\ call = [op |-> "Controller", arg |-> "", ret |-> "None", fits |-> FALSE,
                       calls |-> << >>]
            /\ ui = GameUI(controller, lvl)
            /\ heap = None

\* the engine's attributes are left alone
EngineUnchanged ==
    UNCHANGED <<game_board, active_shape, shape_queue, points, level, initial_level,
                total_rows_cleared>>

\* event.type == pygame.QUIT
QuitEvent ==
    /\ UNCHANGED heap
    /\ ui.pc = "events"
    /\ ui' = [ui EXCEPT !.running = FALSE, !.quit = TRUE, !.op = "quit"]
    /\ EngineUnchanged
    /\ UNCHANGED call

\* event.type == pygame.KEYDOWN with K_UP: controller.rotate()
RotateKeyEvent ==
    /\ UNCHANGED heap
    /\ ui.pc = "events"
    /\ Becomes(rotate(Self))
    /\ call' = Call("rotate", "", rotate(Self))
    /\ ui' = [ui EXCEPT !.op = "keydown",
                        !.pc = IF rotate(Self).ret \in {"True", "False"}
                               THEN "events" ELSE "raised"]

\* event.type == pygame.KEYDOWN with K_SPACE: controller.hold_active_shape()
HoldKeyEvent ==
    /\ UNCHANGED heap
    /\ ui.pc = "events"
    /\ "hold_active_shape" \notin ControllerAttributes
    /\ EngineUnchanged
    /\ call' = NoSuchMethod("hold_active_shape")
    /\ ui' = [ui EXCEPT !.op = "keydown", !.pc = "raised"]

\* event.type == TICK_EVENT: running = controller.tick(), then the tick
\* interval and previous_level
TickEvent ==
    \E choice \in Choices :
        LET result == tick(Self, choice)
            timed == update_tick_interval(ui, result.self.level)
        IN  /\ UNCHANGED heap
            /\ ui.pc = "events"
            /\ Becomes(result)
            /\ call' = Call("tick", "", result)
            /\ ui' = IF result.ret \notin {"True", "False"}
                     THEN [ui EXCEPT !.op = "tick", !.pc = "raised"]
                     ELSE [timed EXCEPT
                              !.op = "tick",
                              !.running = (result.ret = "True"),
                              !.previous_level = max(result.self.level, ui.previous_level)]

\* the end of the event batch and the held-down keys: controller.move for
\* each of left, right, down that is pressed and due
HeldKeys ==
    \E pressed \in SUBSET {"left", "right", "down"} :
        LET result == held_moves(Self,
                                 SelectSeq(<<"left", "right", "down">>,
                                           LAMBDA direction : direction \in pressed),
                                 call)
        IN  /\ UNCHANGED heap
            /\ ui.pc = "events"
            /\ Becomes(result)
            /\ call' = result.call
            /\ ui' = [ui EXCEPT !.op = "keys",
                                !.pc = IF result.exc = "none" THEN "render" ELSE "raised"]

\* self.draw_ui(), and the loop's `while running` test after it
Render ==
    /\ UNCHANGED heap
    /\ ui.pc = "render"
    /\ Becomes(draw_ui(Self))
    /\ UNCHANGED call
    /\ ui' = [ui EXCEPT !.op = "draw_ui",
                        !.quit = IF draw_ui(Self).exc = "none" /\ ui.running
                                 THEN FALSE ELSE ui.quit,
                        !.pc = IF draw_ui(Self).exc # "none" THEN "raised"
                               ELSE IF ui.running THEN "events" ELSE "returned"]

NextHost == QuitEvent \/ RotateKeyEvent \/ HoldKeyEvent \/ TickEvent \/ HeldKeys \/ Render

SpecHost == InitHost /\ [][NextHost]_vars


\* ---------------------------------------------------------------------
\* The tick interval after a tick event
\* ---------------------------------------------------------------------

RECURSIVE Pow(_, _)
Pow(base, exponent) == IF exponent <= 0 THEN 1 ELSE base * Pow(base, exponent - 1)

\* 500 x 0.9^(lvl - 1) as numerator and denominator, for lvl >= 1
BaseTimesRate(lvl) ==
    IF lvl >= 3 THEN << 5 * Pow(9, lvl - 1), Pow(10, lvl - 3) >>
    ELSE << 5 * Pow(9, lvl - 1) * Pow(10, 3 - lvl), 1 >>

\* t is x rounded to a nearest integer (either one when x lies half way)
IsRounded(t, x) ==
    /\ 2 * (t * x[2] - x[1]) <= x[2]
    /\ 2 * (x[1] - t * x[2]) <= x[2]

\* t is x with its fraction cut off
IsTruncated(t, x) ==
    /\ t * x[2] <= x[1]
    /\ x[1] < (t + 1) * x[2]

\* the loop has handled a tick event whose tick() returned
TickHandled == ui # None /\ ui.op = "tick" /\ ui.pc # "raised"

QuitHandled == ui # None /\ ui.quit

C27_HoldSlotHoldsOnePiece ==
    /\ hasattr(Self, "hold_shape")
    /\ call.op = "hold_active_shape" => call.ret # "AttributeError"

\* draw_ui has just run
Rendered == ui # None /\ ui.op = "draw_ui"

\* C28: a call of draw_ui, with the draw_shape calls it makes, leaves the
\* board's grid, the active piece, every queued piece, points, level and
\* total_rows_cleared as they were.
C28_RenderingLeavesEngineAlone ==
    [][(ui # None /\ ui.pc = "render" /\ ui'.op = "draw_ui") =>
          /\ game_board' = game_board
          /\ active_shape' = active_shape
          /\ shape_queue' = shape_queue
          /\ points' = points
          /\ level' = level
          /\ total_rows_cleared' = total_rows_cleared]_vars

\* draw_ui has drawn a queue of three shapes, one of them with an empty
\* row in its matrix for draw_shape to strip
C28_Witness ==
    /\ Rendered
    /\ Len(shape_queue) = 3
    /\ \E i \in 1..3 : \E r \in DOMAIN shape_queue[i].matrix :
           \A c \in DOMAIN shape_queue[i].matrix[r] : shape_queue[i].matrix[r][c] = 0


\* ---------------------------------------------------------------------
\* The loop after game over
\* ---------------------------------------------------------------------

\* the last engine call was a tick() that returned False to the loop
TickReturnedFalse == ui # None /\ ui.pc # "raised" /\ call.op = "tick" /\ call.ret = "False"

C32_BlockedMoveDownDoesNotLock ==
    [][(call'.op = "move" /\ call'.arg = "down" /\ ~call'.fits) =>
          /\ call'.ret = "False"
          /\ Ran(call') = {"move"}
          /\ points' = points
          /\ total_rows_cleared' = total_rows_cleared
          /\ shape_queue' = shape_queue
          /\ active_shape' = active_shape]_vars


(***************************************************************************)
(* Shared list objects.  Shape.__init__ keeps the matrix it is given       *)
(* (self.matrix = matrix), so a queued Shape's matrix is the very list of  *)
(* the module-level SHAPES dict, and Shape.rotate changes its list in      *)
(* place.  `heap` records which list each matrix is:                       *)
(*   heap.SHAPES  what the lists of the SHAPES dict hold now,              *)
(*   heap.queue   for each queued Shape, the SHAPES entry its matrix is,   *)
(*   heap.active  the SHAPES entry the active Shape's matrix is, or "own"  *)
(*                for a list no other object has.                          *)
(***************************************************************************)
\* the keys of SHAPES within the bound
KindNames == {ShapeNames[k] : k \in 1..NumShapeKinds}

\* the popped Shape taken as it is, without copy.deepcopy: its matrix
\* stays the list `entry`
deepcopy_same_lists(entry) == entry

\* copy.deepcopy of a Shape whose matrix is the list `entry`: the lists of
\* the copy are its own
deepcopy(entry) == "own"

\* the queued Shapes, their matrices read through the lists they are
Requeued(queue, h) ==
    [i \in 1..Len(queue) |-> [queue[i] EXCEPT !.matrix = h.SHAPES[h.queue[i]]]]

\* the lists after Controller.rotate() on `self`, which ended as `result`:
\* Shape.rotate has turned the active Shape's list in place, and a
\* rejected rotate gives the Shape the saved copy as its matrix
rotate_lists(h, self, result) ==
    IF self.active_shape = None \/ h.active = "own" THEN h
    ELSE [h EXCEPT !.SHAPES[h.active] = Shape_rotate(self.active_shape).matrix,
                   !.active = IF result.fits THEN @ ELSE "own"]

\* the lists after spawn_new_shape(), random.choice having returned the
\* SHAPES entry `name`
spawn_lists(h, name) ==
    [h EXCEPT !.queue = Append(Tail(@), name), !.active = deepcopy(Head(h.queue))]

\* the call's result with the queue read through the lists `h`
Through(result, h) ==
    [result EXCEPT !.self.shape_queue = Requeued(result.self.shape_queue, h)]

InitShared ==
    \E lvl \in 1..MaxInitialLevel, names \in [1..4 -> KindNames] :
        LET result == Controller(lvl, [i \in 1..4 |-> SHAPES[names[i]]])
        IN  /\ game_board = result.self.game_board
            /\ active_shape = result.self.active_shape
            /\ shape_queue = result.self.shape_queue
            /\ points = result.self.points
            /\ level = result.self.level
            /\ initial_level = result.self.initial_level
            /\ total_rows_cleared = result.self.total_rows_cleared
            /\ call = Call("__init__", "", result)
            /\ ui = None
            /\ heap = [ SHAPES |-> [name \in KindNames |-> SHAPES[name]],
                        queue  |-> <<names[2], names[3], names[4]>>,
                        active |-> deepcopy(names[1]) ]

\* controller.move(direction)
MoveShared ==
    \E direction \in Directions :
        /\ Becomes(move(Self, direction))
        /\ call' = Call("move", direction, move(Self, direction))
        /\ UNCHANGED <<ui, heap>>

\* controller.rotate()
RotateShared ==
    LET lists == rotate_lists(heap, Self, rotate(Self))
    IN  /\ Becomes(Through(rotate(Self), lists))
        /\ call' = Call("rotate", "", rotate(Self))
        /\ heap' = lists
        /\ UNCHANGED ui

\* controller.spawn_new_shape()
SpawnShared ==
    \E name \in KindNames :
        LET result == spawn_new_shape(Self, heap.SHAPES[name])
            lists == spawn_lists(heap, name)
        IN  /\ Becomes(Through(result, lists))
            /\ call' = Call("spawn_new_shape", "", result)
            /\ heap' = lists
            /\ UNCHANGED ui

NextShared == MoveShared \/ RotateShared \/ SpawnShared

SpecShared == InitShared /\ [][NextShared]_vars

\* the SHAPES dict holds the catalog, and every queued piece has the
\* catalog matrix of its entry, unturned, at row 0 and column 0
QueueIsCanonical ==
    /\ heap.SHAPES = [name \in KindNames |-> SHAPES[name]]
    /\ \A i \in 1..Len(shape_queue) :
          /\ shape_queue[i].matrix = SHAPES[heap.queue[i]]
          /\ shape_queue[i].rotation_state = 0
          /\ shape_queue[i].row_position = 0
          /\ shape_queue[i].col_position = 0

\* C33: rotate() and move() change neither the SHAPES dict nor any queued
\* piece; every queued piece has its catalog matrix at row 0, column 0,
\* and a spawn makes the head of the queue active with that matrix and
\* position, also when the piece that was active is of the same kind.
C33_QueueAndCatalogUntouched ==
    /\ []QueueIsCanonical
    /\ [][call'.op \in {"move", "rotate"} =>
             /\ heap'.SHAPES = heap.SHAPES
             /\ shape_queue' = shape_queue]_vars
    /\ [][call'.op = "spawn_new_shape" =>
             /\ active_shape'.matrix = SHAPES[Head(heap.queue)]
             /\ active_shape'.rotation_state = 0
             /\ active_shape'.row_position = 0
             /\ active_shape'.col_position = 0]_vars

\* rotate() has turned the active piece while a piece of the same kind
\* waits in the queue
C33_Witness ==
    /\ call.op = "rotate"
    /\ \E i \in 1..Len(shape_queue) :
          /\ shape_queue[i].key = active_shape.key
          /\ shape_queue[i].matrix # active_shape.matrix


\* the number of nonzero cells of the board's grid
NonZeroCells(board) ==
    Cardinality({rc \in (DOMAIN board.grid) \X (0..(board.num_cols - 1)) :
                    board.grid[rc[1]][rc[2]] # 0})

Made(op, arg, result) ==
    [ self |-> result.self, op |-> op, arg |-> arg, ret |-> result.ret,
      fits |-> result.fits,
      calls |-> IF "calls" \in DOMAIN result THEN result.calls ELSE << >> ]

RECURSIVE Turned(_, _)
\* the last of `turns` rotate() calls on `self` (`last` if there is none)
Turned(last, turns) ==
    IF turns = 0 THEN last
    ELSE LET before == Turned(last, turns - 1)
         IN  Made("rotate", "", rotate(before.self))

RECURSIVE Shifted(_, _)
\* the last of `shifts` move("right") calls after `last`
Shifted(last, shifts) ==
    IF shifts = 0 THEN last
    ELSE LET before == Shifted(last, shifts - 1)
         IN  Made("move", "right", move(before.self, "right"))

InitTicks ==
    \E lvl \in 1..MaxInitialLevel, choices \in [1..4 -> Choices],
       turns \in 0..3, shifts \in 0..(NumCols - 1) :
        LET last == Shifted(Turned(Made("__init__", "", Controller(lvl, choices)), turns),
                            shifts)
        IN  /\ game_board = last.self.game_board
            /\ active_shape = last.self.active_shape
            /\ shape_queue = last.self.shape_queue
            /\ points = last.self.points
            /\ level = last.self.level
            /\ initial_level = last.self.initial_level
            /\ total_rows_cleared = last.self.total_rows_cleared
            /\ call = Call(last.op, last.arg, last)
            /\ ui = None
            /\ heap = None

SpecTicks == InitTicks /\ [][Tick]_vars

\* the call made in this step was a tick() that left the active piece in
\* its row
TickWithoutFall ==
    /\ call'.op = "tick"
    /\ active_shape'.row_position = active_shape.row_position

\* C35: bounded fall.  Under ticks alone every tick either takes the
\* active piece one row down or is a lock event, and no piece is ever more
\* than numRows - 1 rows below the row it was spawned at: so a lock event
\* comes within numRows consecutive ticks.
C35_TicksLockThePiece ==
    /\ [](active_shape.row_position <= NumRows - 1)
    /\ [][TickWithoutFall => LockEvent]_vars


\* tick() would change the engine or end otherwise than the last call did
TickChanges ==
    \E choice \in Choices :
        \/ tick(Self, choice).self # Self
        \/ Call("tick", "", tick(Self, choice)) # call

\* a tick() has returned False: game over
TickEndedGame == call.op = "tick" /\ call.ret = "False"

\* C36: when the host only calls tick(), whatever shapes are generated, a
\* tick() returns False (game over) sooner or later, and no row is cleared
\* on the way.  So as long as the game is not over a further tick() must
\* be able to change something: where every tick() leaves the engine as
\* it is, game over is never reached.
C36_TicksAloneEndTheGame ==
    /\ [](total_rows_cleared = 0)
    /\ [](TickEndedGame \/ TickChanges)


(***************************************************************************)
(* The while loop of GameBoard.clear_rows, one iteration at a time.        *)
(* `call` holds the loop's locals: [op, row_idx, cleared, before], op      *)
(* being "while" inside the loop and "clear_rows" once it has returned.    *)
(***************************************************************************)
\* one iteration that moves on to the row above after a deletion as well
clear_rows_iteration_moving_on(board, row_idx, cleared) ==
    IF RowFull(board, row_idx)
    THEN [board |-> DeleteRow(board, row_idx), row_idx |-> row_idx - 1,
          cleared |-> cleared + 1]
    ELSE [board |-> board, row_idx |-> row_idx - 1, cleared |-> cleared]

\* one iteration of the loop: a full row is deleted and row_idx stays,
\* else row_idx goes one row up
clear_rows_iteration(board, row_idx, cleared) ==
    IF RowFull(board, row_idx)
    THEN [board |-> DeleteRow(board, row_idx), row_idx |-> row_idx,
          cleared |-> cleared + 1]
    ELSE [board |-> board, row_idx |-> row_idx - 1, cleared |-> cleared]

\* the boards the loop is run on: rows that are empty, full, or hold one
\* locked cell
SweepInputs ==
    {[GameBoard(NumRows, NumCols) EXCEPT !.grid = grid] :
        grid \in [0..(NumRows - 1) ->
                     {[c \in 0..(NumCols - 1) |-> 0], [c \in 0..(NumCols - 1) |-> 7],
                      [c \in 0..(NumCols - 1) |-> IF c = 0 THEN 7 ELSE 0]}]}

\* clear_rows() has been entered: cleared = 0, row_idx = num_rows - 1
InitSweep ==
    /\ game_board \in SweepInputs
    /\ active_shape = None
    /\ shape_queue = << >>
    /\ points = 0
    /\ level = 1
    /\ initial_level = 1
    /\ total_rows_cleared = 0
    /\ ui = None
    /\ heap = None
    /\ call = [op |-> "while", row_idx |-> game_board.num_rows - 1, cleared |-> 0,
               before |-> game_board]

\* while row_idx >= 0: the loop body
Iterate ==
    /\ call.op = "while"
    /\ call.row_idx >= 0
    /\ LET next == clear_rows_iteration(game_board, call.row_idx, call.cleared)
       IN  /\ game_board' = next.board
           /\ call' = [call EXCEPT !.row_idx = next.row_idx, !.cleared = next.cleared]
    /\ UNCHANGED <<active_shape, shape_queue, points, level, initial_level,
                   total_rows_cleared, ui, heap>>

\* the loop test fails: return cleared
Return ==
    /\ call.op = "while"
    /\ call.row_idx < 0
    /\ call' = [call EXCEPT !.op = "clear_rows"]
    /\ UNCHANGED <<game_board, active_shape, shape_queue, points, level, initial_level,
                   total_rows_cleared, ui, heap>>

NextSweep == Iterate \/ Return

\* the call runs on: a statement that can be executed is executed
SpecSweep == InitSweep /\ [][NextSweep]_vars /\ WF_vars(Iterate) /\ WF_vars(Return)

\* clear_rows() has returned
Returned == call.op = "clear_rows"

\* C37: clear_rows() terminates on every board (the boards here have
\* num_cols >= 1), and when it returns no row of the grid is full; what
\* it returns and leaves is what the sweep as a whole computes.
C37_ClearRowsTerminates ==
    /\ <>Returned
    /\ [](Returned =>
             /\ \A r \in DOMAIN game_board.grid : ~IsFullRow(game_board.grid[r])
             /\ game_board = clear_rows(call.before).board
             /\ call.cleared = clear_rows(call.before).cleared)

\* clear_rows() has returned after deleting two full rows that lay one on
\* the other: the second slid into the index of the first
C37_Witness ==
    /\ Returned
    /\ call.cleared >= 2
    /\ \E r \in 0..(NumRows - 2) :
          IsFullRow(call.before.grid[r]) /\ IsFullRow(call.before.grid[r + 1])


\* ---------------------------------------------------------------------
\* What move() and rotate() leave alone
\* ---------------------------------------------------------------------

\* the matrix turned clockwise 0 to 3 times
Turns(matrix) ==
    {matrix, Clockwise(matrix), Clockwise(Clockwise(matrix)),
     Clockwise(Clockwise(Clockwise(matrix)))}

\* C38: move() and rotate(), however they end, leave points, level,
\* total_rows_cleared and the queue as they were, and the active piece is
\* the piece it was: move() changes at most its position, rotate() at most
\* its matrix, by a turn, and its rotation_state.
C38_MoveAndRotateKeepScoreAndPiece ==
    [][call'.op \in {"move", "rotate"} =>
          /\ points' = points
          /\ level' = level
          /\ total_rows_cleared' = total_rows_cleared
          /\ shape_queue' = shape_queue
          /\ active_shape'.key = active_shape.key
          /\ active_shape'.matrix \in Turns(active_shape.matrix)
          /\ call'.op = "move" =>
                /\ active_shape'.matrix = active_shape.matrix
                /\ active_shape'.rotation_state = active_shape.rotation_state
          /\ call'.op = "rotate" =>
                /\ active_shape'.row_position = active_shape.row_position
                /\ active_shape'.col_position = active_shape.col_position]_vars

\* a move() has found the turned piece blocked, after earlier calls took
\* it away from where it was spawned, and the queue holds another kind of
\* piece
C38_Witness ==
    /\ call.op = "move"
    /\ ~call.fits
    /\ active_shape.rotation_state # 0
    /\ active_shape.row_position > 0
    /\ \E i \in 1..Len(shape_queue) : shape_queue[i].key # active_shape.key


(***************************************************************************)
(* move() on engines whose board holds locked cells.  A spawn that finds   *)
(* its position taken leaves the new active piece lying over the locked    *)
(* cells; the engines here have a piece as spawn_new_shape leaves it, on a  *)
(* board with at most MaxFilled locked cells, under it or elsewhere.        *)
(***************************************************************************)
InitMove ==
    \E choice \in Choices, next \in Choices :
        /\ game_board \in BoardInputs
        /\ active_shape = generate_new_shape(choice)
        /\ shape_queue = << generate_new_shape(next), generate_new_shape(next),
                            generate_new_shape(next) >>
        /\ points = 0
        /\ level = 1
        /\ initial_level = 1
        /\ total_rows_cleared = 0
        /\ call = [op |-> "Controller", arg |-> "", ret |-> "None", fits |-> FALSE,
                   calls |-> << >>]
        /\ ui = None
        /\ heap = None

SpecMove == InitMove /\ [][Move]_vars

\* C39: move(direction) with a direction other than "left", "right" and
\* "down" returns False, and the board (the piece's cells and the locked
\* cells under it included), the active piece, the queue, points, level
\* and total_rows_cleared are what they were.
C39_UnknownDirectionChangesNothing ==
    [][(call'.op = "move" /\ call'.arg \notin {"left", "right", "down"}) =>
          /\ call'.ret = "False"
          /\ game_board' = game_board
          /\ active_shape' = active_shape
          /\ shape_queue' = shape_queue
          /\ points' = points
          /\ level' = level
          /\ initial_level' = initial_level
          /\ total_rows_cleared' = total_rows_cleared]_vars

\* move("up") has returned with the active piece lying over a locked cell,
\* which remove_shape would have emptied
C39_Witness ==
    /\ call.op = "move"
    /\ call.arg = "up"
    /\ \E cell \in BoardCells(active_shape) :
          InBounds(game_board, cell) /\ game_board.grid[cell[1]][cell[2]] # 0

====
